---- MODULE Spec2Model ----
(***************************************************************************)
(* Betty agent runner (container/betty-agent-runner/src/index.ts) with its *)
(* history store (memory.ts) and the tool dispatcher boundary (tools.ts).  *)
(*                                                                         *)
(* A text is a sequence of tokens; "\n", " ", "<think>" and "</think>" are *)
(* tokens of their own.  A file name is a sequence of characters without   *)
(* its extension.  Timestamps of history records are left out: no code     *)
(* path reads them.                                                        *)
(***************************************************************************)
EXTENDS Integers, Sequences, FiniteSets, TLC

(* ------------------------------ bounds -------------------------------- *)

\* files the host drops into the mailbox during one run
MaxHostFiles == 2
\* rounds of a turn in which the completion service varies the tools it asks for
MaxVariedRounds == 1
\* tokens of a text given to stripThinkTags on its own
MaxTextLen == 4
MaxPathLen == 2

(* -------------------------- program constants ------------------------- *)

MAX_TOOL_ROUNDS == 15
MAX_HISTORY_MESSAGES == 50

OUTPUT_START_MARKER == "---NANOCLAW_OUTPUT_START---"
OUTPUT_END_MARKER == "---NANOCLAW_OUTPUT_END---"

NoResponseText == <<"No response from model.">>
MaxRoundsText == <<"Reached maximum tool call rounds. Please try a simpler request.">>

(* ------------------------------- texts -------------------------------- *)

NL == "\n"
IsSpace(tok) == tok \in {" ", NL}

RECURSIVE JoinNL(_)
\* Array.prototype.join('\n')
JoinNL(texts) ==
  IF texts = <<>> THEN <<>>
  ELSE IF Len(texts) = 1 THEN texts[1]
  ELSE texts[1] \o <<NL>> \o JoinNL(Tail(texts))

\* position of the first tok in t at or after position from, 0 when there is none
FirstAt(t, tok, from) ==
  LET hits == {i \in from..Len(t) : t[i] = tok}
  IN IF hits = {} THEN 0 ELSE CHOOSE i \in hits : \A j \in hits : i <= j

\* position of the last tok in t at or after position from, 0 when there is none
LastAt(t, tok, from) ==
  LET hits == {i \in from..Len(t) : t[i] = tok}
  IN IF hits = {} THEN 0 ELSE CHOOSE i \in hits : \A j \in hits : i >= j

RECURSIVE RemoveThinkGreedy(_)
\* the pattern without the lazy quantifier: the farthest closing marker
RemoveThinkGreedy(t) ==
  IF t = <<>> THEN <<>>
  ELSE IF Head(t) = "<think>"
    THEN LET close == LastAt(t, "</think>", 2)
         IN IF close = 0 THEN t
            ELSE RemoveThinkGreedy(SubSeq(t, close + 1, Len(t)))
    ELSE <<Head(t)>> \o RemoveThinkGreedy(Tail(t))

RECURSIVE RemoveThink(_)
\* text.replace(/<think>[\s\S]*?<\/think>/g, ''): leftmost opening marker, nearest
\* closing marker after it; an opening marker with no closing one stays.
RemoveThink(t) ==
  IF t = <<>> THEN <<>>
  ELSE IF Head(t) = "<think>"
    THEN LET close == FirstAt(t, "</think>", 2)
         IN IF close = 0 THEN t
            ELSE RemoveThink(SubSeq(t, close + 1, Len(t)))
    ELSE <<Head(t)>> \o RemoveThink(Tail(t))

RECURSIVE TrimLeft(_)
TrimLeft(t) == IF t # <<>> /\ IsSpace(Head(t)) THEN TrimLeft(Tail(t)) ELSE t

RECURSIVE TrimRight(_)
TrimRight(t) ==
  IF t # <<>> /\ IsSpace(t[Len(t)]) THEN TrimRight(SubSeq(t, 1, Len(t) - 1)) ELSE t

\* String.prototype.trim()
Trim(t) == TrimRight(TrimLeft(t))

stripThinkTags(text) == Trim(RemoveThink(text))

(* --------------------------- history store ---------------------------- *)

\* A line of the log: a serialized message, or a line JSON.parse rejects.
GarbageLine == [kind |-> "garbage", role |-> "", content |-> <<>>]

HistoryMessage(role, content) == [role |-> role, content |-> content]

\* JSON.stringify(message) + '\n'
StringifyHistory(m) == [kind |-> "json", role |-> m.role, content |-> m.content]

\* JSON.parse(line), for a line it accepts
ParseHistory(line) == [role |-> line.role, content |-> line.content]

LastN(s, n) == IF Len(s) <= n THEN s ELSE SubSeq(s, Len(s) - n + 1, Len(s))

\* the load keeping the first messages instead of the last: slice(0, N)
loadHistoryHead(file) ==
  LET good == SelectSeq(file, LAMBDA l : l.kind = "json")
      messages == [i \in 1..Len(good) |-> ParseHistory(good[i])]
  IN SubSeq(messages, 1, IF Len(messages) <= MAX_HISTORY_MESSAGES
                           THEN Len(messages) ELSE MAX_HISTORY_MESSAGES)

\* the load giving up at the first line the parser rejects
loadHistoryStops(file) ==
  LET bad == {i \in 1..Len(file) : file[i].kind # "json"}
      upTo == IF bad = {} THEN Len(file)
              ELSE (CHOOSE i \in bad : \A j \in bad : i <= j) - 1
      messages == [i \in 1..upTo |-> ParseHistory(file[i])]
  IN LastN(messages, MAX_HISTORY_MESSAGES)

loadHistory(file) ==
  LET good == SelectSeq(file, LAMBDA l : l.kind = "json")
      messages == [i \in 1..Len(good) |-> ParseHistory(good[i])]
  IN LastN(messages, MAX_HISTORY_MESSAGES)

appendHistory(file, message) == Append(file, StringifyHistory(message))

\* the message as the completion service gets it
ChatMessage(role, content, calls, callId) ==
  [role |-> role, content |-> content, tool_calls |-> calls, tool_call_id |-> callId]

historyToOpenAI(messages) ==
  [i \in 1..Len(messages) |->
     ChatMessage(messages[i].role, messages[i].content, <<>>, "")]

(* --------------------------- output framer ---------------------------- *)

Absent == <<>>
JsonNull == [isNull |-> TRUE, str |-> <<>>]
JsonStr(t) == [isNull |-> FALSE, str |-> t]

\* ContainerOutput; a field that is undefined is left out by JSON.stringify
ContainerOutput(status, result, sid, error) ==
  [status |-> status, result |-> result, newSessionId |-> sid, error |-> error]

NoRecord == ContainerOutput("", JsonNull, Absent, Absent)
MarkerLine(m) == [line |-> m, rec |-> NoRecord]
RecordLine(output) == [line |-> "json", rec |-> output]

\* writeOutput without its closing console.log
writeOutputNoEnd(out, output) ==
  out \o <<MarkerLine(OUTPUT_START_MARKER), RecordLine(output)>>

writeOutput(out, output) ==
  out \o <<MarkerLine(OUTPUT_START_MARKER), RecordLine(output),
           MarkerLine(OUTPUT_END_MARKER)>>

\* response || null
\* the result taken as it is, the empty text too
ResultOfKeepsEmpty(response) == JsonStr(response)

ResultOf(response) == IF response = <<>> THEN JsonNull ELSE JsonStr(response)

(* -------------------------- control channel --------------------------- *)

\* A mailbox file: its name without the extension (characters as their digit
\* values), whether the name ends with ".json", and what JSON.parse makes of it.
File(name, json, body) == [name |-> name, json |-> json, body |-> body]
Body(parses, type, text) == [parses |-> parses, type |-> type, text |-> text]

\* String comparison of "<a>.json" and "<b>.json" by code unit: "." sorts before
\* every digit, so a proper prefix comes first.
NameLess(a, b) ==
  \E k \in 1..(Len(a) + 1) :
    /\ k <= Len(b)
    /\ \A i \in 1..(k - 1) : i <= Len(a) /\ a[i] = b[i]
    /\ (k = Len(a) + 1 \/ a[k] < b[k])

RECURSIVE SortByName(_)
\* Array.prototype.sort() without a comparator, on distinct names
SortByName(files) ==
  IF files = <<>> THEN <<>>
  ELSE LET m == CHOOSE i \in 1..Len(files) :
                  \A j \in 1..Len(files) : j = i \/ NameLess(files[i].name, files[j].name)
           rest == [j \in 1..(Len(files) - 1) |-> IF j < m THEN files[j] ELSE files[j + 1]]
       IN <<files[m]>> \o SortByName(rest)

\* the listing without .sort(): the order readdirSync gives
ListInputUnsorted(dir) == SelectSeq(dir, LAMBDA f : f.json)

\* readdirSync(IPC_INPUT_DIR).filter(f => f.endsWith('.json')).sort()
ListInput(dir) == SortByName(SelectSeq(dir, LAMBDA f : f.json))

\* the test without data.type === 'message'
ActionableAnyType(f) == f.body.parses /\ f.body.text # <<>>

\* data.type === 'message' && data.text, for a file that parsed
Actionable(f) == f.body.parses /\ f.body.type = "message" /\ f.body.text # <<>>

\* drainIpcInput without the unlinkSync
drainIpcInputKeeps(dir) ==
  LET files == ListInput(dir)
      kept == SelectSeq(files, Actionable)
  IN [messages |-> [i \in 1..Len(kept) |-> kept[i].body.text], dir |-> dir]

\* Every listed file is read and unlinked, also one that fails to parse.
drainIpcInput(dir) ==
  LET files == ListInput(dir)
      kept == SelectSeq(files, Actionable)
  IN [messages |-> [i \in 1..Len(kept) |-> kept[i].body.text],
      dir |-> SelectSeq(dir, LAMBDA f : ~f.json)]

\* shouldClose without the unlinkSync
shouldCloseKeeps(sentinelExists) ==
  [result |-> sentinelExists, sentinel |-> sentinelExists]

\* shouldClose looking at a path the host never writes
shouldCloseBlind(sentinelExists) ==
  [result |-> FALSE, sentinel |-> sentinelExists]

shouldClose(sentinelExists) ==
  [result |-> sentinelExists, sentinel |-> FALSE]

\* poll() resolving with the first drained text instead of all of them joined
pollFirst(sentinelExists, dir) ==
  LET close == shouldClose(sentinelExists)
      drained == drainIpcInput(dir)
  IN IF close.result
       THEN [outcome |-> "closed", text |-> <<>>, sentinel |-> close.sentinel, dir |-> dir]
     ELSE IF Len(drained.messages) > 0
       THEN [outcome |-> "text", text |-> drained.messages[1],
             sentinel |-> close.sentinel, dir |-> drained.dir]
     ELSE [outcome |-> "sleep", text |-> <<>>, sentinel |-> close.sentinel,
           dir |-> drained.dir]

\* poll() giving up when it finds nothing, instead of sleeping
pollGivesUp(sentinelExists, dir) ==
  LET drained == drainIpcInput(dir)
  IN IF sentinelExists \/ Len(drained.messages) = 0
       THEN [outcome |-> "closed", text |-> <<>>, sentinel |-> FALSE,
             dir |-> IF sentinelExists THEN dir ELSE drained.dir]
     ELSE [outcome |-> "text", text |-> JoinNL(drained.messages),
           sentinel |-> FALSE, dir |-> drained.dir]

\* poll() draining the mailbox before it looks for the sentinel
pollDrainsFirst(sentinelExists, dir) ==
  LET drained == drainIpcInput(dir)
  IN IF Len(drained.messages) > 0
       THEN [outcome |-> "text", text |-> JoinNL(drained.messages),
             sentinel |-> sentinelExists, dir |-> drained.dir]
     ELSE IF sentinelExists
       THEN [outcome |-> "closed", text |-> <<>>, sentinel |-> FALSE, dir |-> drained.dir]
     ELSE [outcome |-> "sleep", text |-> <<>>, sentinel |-> FALSE, dir |-> drained.dir]

\* One run of poll(): what waitForIpcMessage resolves with, if it resolves.
poll(sentinelExists, dir) ==
  LET close == shouldClose(sentinelExists)
      drained == drainIpcInput(dir)
  IN IF close.result
       THEN [outcome |-> "closed", text |-> <<>>, sentinel |-> close.sentinel, dir |-> dir]
     ELSE IF Len(drained.messages) > 0
       THEN [outcome |-> "text", text |-> JoinNL(drained.messages),
             sentinel |-> close.sentinel, dir |-> drained.dir]
     ELSE [outcome |-> "sleep", text |-> <<>>, sentinel |-> close.sentinel,
           dir |-> drained.dir]

(* --------------------------- tool dispatcher -------------------------- *)

\* A path is a sequence of segments and a segment a sequence of name pieces, so
\* that "group2" (<<"group", "2">>) has "group" as a string prefix.
WORKSPACE_ROOT == << <<"workspace">>, <<"group">> >>
HISTORY_FILE ==
  << <<"workspace">>, <<"group">>, <<"memory">>, <<"conversation-history.jsonl">> >>

PathArg(abs, segs) == [abs |-> abs, segs |-> segs]

RECURSIVE Normalize(_, _)
\* path.resolve's normalisation: "." is dropped, ".." pops a segment (not past "/")
Normalize(done, segs) ==
  IF segs = <<>> THEN done
  ELSE IF Head(segs) = <<".">> THEN Normalize(done, Tail(segs))
  ELSE IF Head(segs) = <<"..">>
    THEN Normalize(IF done = <<>> THEN <<>> ELSE SubSeq(done, 1, Len(done) - 1), Tail(segs))
  ELSE Normalize(Append(done, Head(segs)), Tail(segs))

\* path.resolve(WORKSPACE_ROOT, relativePath)
pathResolve(root, p) == Normalize(<<>>, IF p.abs THEN p.segs ELSE root \o p.segs)

IsPrefix(a, b) == Len(a) <= Len(b) /\ SubSeq(b, 1, Len(a)) = a

\* resolved.startsWith(WORKSPACE_ROOT), on the strings
StartsWithRoot(resolved, root) ==
  /\ Len(resolved) >= Len(root)
  /\ \A i \in 1..(Len(root) - 1) : resolved[i] = root[i]
  /\ IsPrefix(root[Len(root)], resolved[Len(root)])

resolveSafePath(relativePath) ==
  LET resolved == pathResolve(WORKSPACE_ROOT, relativePath)
  IN [ok |-> StartsWithRoot(resolved, WORKSPACE_ROOT), path |-> resolved]

\* The parsed argument object; hasPath is FALSE when args.path is undefined.
Args(hasPath, path, content) == [hasPath |-> hasPath, path |-> path, content |-> content]
EmptyArgs == Args(FALSE, PathArg(FALSE, <<>>), <<>>)

ToolCall(id, name, parses, args) ==
  [id |-> id, name |-> name, parses |-> parses, args |-> args]

\* try { fnArgs = JSON.parse(toolCall.function.arguments) } catch { fnArgs = {} }
parseArguments(call) == IF call.parses THEN call.args ELSE EmptyArgs

ToolError(name, msg) == <<"Tool error (", name, "): ", msg>>
\* what a tool did: its result, the file it wrote if any, and the path it gave the
\* file system (touched, <<>> when it gave none)
NoWrite(result) ==
  [result |-> result, wrote |-> FALSE, target |-> <<>>, content |-> <<>>, touched |-> <<>>]
Touching(path, result) == [NoWrite(result) EXCEPT !.touched = path]

\* readFile(args.path); exists: whether fs.existsSync finds the file
readFile(name, args, exists) ==
  IF ~args.hasPath THEN NoWrite(ToolError(name, "The \"paths[1]\" argument must be of type string"))
  ELSE LET safe == resolveSafePath(args.path)
       IN IF ~safe.ok
            THEN NoWrite(ToolError(name, "Path traversal blocked: path must be within workspace"))
          ELSE Touching(safe.path, IF exists THEN <<"(file contents)">> ELSE <<"File not found">>)

\* writeFile(args.path, args.content); path.resolve throws on an undefined path
writeFile(name, args) ==
  IF ~args.hasPath THEN NoWrite(ToolError(name, "The \"paths[1]\" argument must be of type string"))
  ELSE LET safe == resolveSafePath(args.path)
       IN IF ~safe.ok
            THEN NoWrite(ToolError(name, "Path traversal blocked: path must be within workspace"))
          ELSE [result |-> <<"File written">>, wrote |-> TRUE,
                target |-> safe.path, content |-> args.content, touched |-> safe.path]

\* listFiles(args.path || '.')
listFiles(name, args) ==
  LET safe == resolveSafePath(IF args.hasPath THEN args.path ELSE PathArg(FALSE, << <<".">> >>))
  IN IF ~safe.ok
       THEN NoWrite(ToolError(name, "Path traversal blocked: path must be within workspace"))
     ELSE Touching(safe.path, <<"(empty directory)">>)

\* extOk: whether the external service behind the tool answers (it throws otherwise)
executeTool(name, args, extOk) ==
  CASE name = "read_file" -> readFile(name, args, extOk)
    [] name = "write_file" -> writeFile(name, args)
    [] name = "list_files" -> listFiles(name, args)
    [] name = "calendar_list" ->
         IF extOk THEN NoWrite(<<"No upcoming events.">>)
         ELSE NoWrite(ToolError(name, "invalid_grant"))
    [] OTHER -> NoWrite(<<"Unknown tool: ", name>>)

RECURSIVE SplitLines(_)
\* the lines of a written text, as loadHistory will split them
SplitLines(text) ==
  IF text = <<>> THEN <<>>
  ELSE LET nl == FirstAt(text, NL, 1)
       IN IF nl = 0 THEN <<GarbageLine>>
          ELSE (IF nl = 1 THEN <<>> ELSE <<GarbageLine>>)
               \o SplitLines(SubSeq(text, nl + 1, Len(text)))

\* fs.writeFileSync(resolved, content), seen from the history log
WriteEffect(file, done) ==
  IF done.wrote /\ done.target = HISTORY_FILE THEN SplitLines(done.content) ELSE file

(* ------------------------- completion service ------------------------- *)

\* response.choices[0]: its message's content and tool_calls, and finish_reason
Response(hasChoice, content, calls, finish) ==
  [hasChoice |-> hasChoice, content |-> content, calls |-> calls, finish |-> finish]

NoChoice == Response(FALSE, <<>>, <<>>, "")

\* contents of a final answer: plain, with a reasoning span, empty (or null),
\* nothing but a reasoning span
Contents ==
  { <<"hello">>, <<"<think>", "scratch", "</think>", NL, "hello">>, <<>>,
    <<"<think>", "scratch", "</think>">> }

\* content of an assistant message that asks for tools
ToolContent == <<"<think>", "plan", "</think>", " ", "hello">>

callList == ToolCall("call_1", "list_files", TRUE, EmptyArgs)
callCalendar == ToolCall("call_2", "calendar_list", FALSE, EmptyArgs)
callUnknown == ToolCall("call_3", "web_search", TRUE, EmptyArgs)
callWriteLog ==
  ToolCall("call_4", "write_file", TRUE,
           Args(TRUE, PathArg(FALSE, << <<"memory">>, <<"conversation-history.jsonl">> >>),
                <<>>))

DefaultCalls == <<callList>>
CallLists == { DefaultCalls, <<callCalendar, callUnknown>>, <<callWriteLog>> }

\* what the service may answer in round r of a turn
Responses(r) ==
  {NoChoice}
  \cup {Response(TRUE, c, <<>>, "stop") : c \in Contents}
  \cup {Response(TRUE, ToolContent, calls, fin) :
          calls \in (IF r <= MaxVariedRounds THEN CallLists ELSE {DefaultCalls}),
          fin \in {"tool_calls", "stop"}}

(* ------------------------------ the host ------------------------------ *)

Message(text) == Body(TRUE, "message", text)

f10 == File(<<1, 0>>, TRUE, Message(<<"ten">>))
f2 == File(<<2>>, TRUE, Message(<<"two">>))
f3 == File(<<3>>, TRUE, Body(FALSE, "", <<>>))
f4 == File(<<4>>, TRUE, Body(TRUE, "ping", <<"four">>))
f5 == File(<<5>>, TRUE, Message(<<>>))
f6 == File(<<6>>, FALSE, Message(<<"six">>))

\* `betty-${Date.now()}`
SessionIdAt(now) == <<"betty-", now>>
SystemPrompt == <<"You are Betty">>

StdinInput(parses, promptText) == [parses |-> parses, prompt |-> promptText]

oldUser == StringifyHistory(HistoryMessage("user", <<"old">>))
oldAssistant == StringifyHistory(HistoryMessage("assistant", <<"older">>))

\* a log of an earlier run with a corrupt line in it
ShortLog == <<oldUser, GarbageLine, oldAssistant>>
\* a log of an earlier run that is longer than the context window
LongLog ==
  [i \in 1..(MAX_HISTORY_MESSAGES + 1) |-> IF i % 2 = 1 THEN oldUser ELSE oldAssistant]

\* What the process finds when it starts: its input, the log and the mailbox an
\* earlier run left, the clock, whether the workspace is usable, and the files
\* the host is going to drop, in the order it creates them.
World(in, log, files, close, now, broken, script) ==
  [stdin |-> in, histFile |-> log, dir |-> files, sentinel |-> close, now |-> now,
   fault |-> broken, script |-> script]

\* a restart: an earlier run left a log, two messages and a stale sentinel
RestartWorld ==
  World(StdinInput(TRUE, <<"hi">>), ShortLog, <<f2, f10>>, TRUE, 3, FALSE, <<f3, f4, f6>>)

\* a start with one message waiting: the host's next files come after the first turn
BacklogWorld ==
  World(StdinInput(TRUE, <<"hi">>), <<>>, <<f10>>, FALSE, 6, FALSE, <<f2, f4>>)

\* a first start: nothing left behind, the host drops its files as the turns run
FreshWorld ==
  World(StdinInput(TRUE, <<"hi">>), <<>>, <<>>, FALSE, 1, FALSE, <<f2, f10, f3>>)

InitialWorlds ==
  { FreshWorld,
    BacklogWorld,
    World(StdinInput(FALSE, <<>>), <<>>, <<>>, FALSE, 2, FALSE, <<>>),
    RestartWorld,
    World(StdinInput(TRUE, <<"hi">>), LongLog, <<>>, FALSE, 4, FALSE, <<f5, f2, f4>>),
    World(StdinInput(TRUE, <<"hi">>), <<>>, <<>>, FALSE, 5, TRUE, <<>>) }

(* ------------------------------- state -------------------------------- *)

VARIABLES
  pc,         \* where main() is: Starting, Running, Calling, Tooling, AwaitingInput,
              \* or ended: Closed, Failed, ParseFailed, Crashed
  world,      \* what the process found when it started
  sessionId,  \* main's sessionId, Absent until generated
  prompt,     \* main's prompt
  dir,        \* the mailbox directory listing, in creation order
  sentinel,   \* whether the _close file exists
  histFile,   \* the lines of the history log
  messages,   \* runConversation's messages
  rounds,     \* runConversation's rounds
  current,    \* the choice whose tool calls are being executed
  toolIdx,    \* the tool call in flight
  stdout,     \* the lines written to standard output
  hostFiles,  \* how many files the host has dropped so far
  closeAsked, \* whether the host has created the sentinel since startup
  \* history of the run, read by the properties only
  hist0,      \* the log when the current turn began
  appended,   \* the messages the current turn gave appendHistory
  turnCalls,  \* completion calls issued in the current turn
  onlyTools,  \* every answer of the current turn asked for tools and did not say stop
  logWritten, \* a tool of the current turn wrote the file of the history log
  ending,     \* how the last finished turn ended: final, stop, nochoice or maxrounds
  returned,   \* what each finished turn returned
  lastDrain,  \* the last drainIpcInput: the directory before, the texts, the directory after
  prompts,    \* the prompt each turn was started with
  touched     \* the path the current round's last tool gave the file system, <<>> if none

procVars == <<pc, sessionId, prompt, messages, rounds, current, toolIdx, stdout>>
fsVars == <<dir, sentinel, histFile>>
hostVars == <<world, hostFiles, closeAsked>>
turnVars == <<hist0, appended, turnCalls, onlyTools, logWritten, ending>>
vars == <<procVars, fsVars, hostVars, turnVars, returned, lastDrain, prompts, touched>>

Ended == {"Closed", "Failed", "ParseFailed", "Crashed"}

\* process.exit(1), an unhandled rejection, or main() returning
ExitStatus == IF pc = "Closed" THEN 0 ELSE 1

NoDrain == [ran |-> FALSE, before |-> <<>>, messages |-> <<>>, after |-> <<>>]
Drained(before, d) ==
  [ran |-> TRUE, before |-> before, messages |-> d.messages, after |-> d.dir]

Init ==
  /\ world \in InitialWorlds
  /\ dir = world.dir
  /\ sentinel = world.sentinel
  /\ histFile = world.histFile
  /\ hostFiles = 0
  /\ pc = "Starting"
  /\ sessionId = Absent
  /\ prompt = <<>>
  /\ messages = <<>>
  /\ rounds = 0
  /\ current = NoChoice
  /\ toolIdx = 0
  /\ stdout = <<>>
  /\ closeAsked = FALSE
  /\ hist0 = <<>>
  /\ appended = <<>>
  /\ turnCalls = 0
  /\ onlyTools = TRUE
  /\ logWritten = FALSE
  /\ ending = ""
  /\ returned = <<>>
  /\ lastDrain = NoDrain
  /\ prompts = <<>>
  /\ touched = <<>>

(* ------------------------------ main() --------------------------------- *)

\* `Failed to parse input: ${err.message}`
ParseErrorText == <<"Failed to parse input: ", "Unexpected end of JSON input">>
\* err.message of a completion call that rejects
CompletionErrorText == <<"Connection error.">>

\* main, lines 255-268: the initial input does not parse
ParseFailure ==
  /\ pc = "Starting"
  /\ ~world.stdin.parses
  /\ stdout' = writeOutput(stdout,
                 ContainerOutput("error", JsonNull, Absent, ParseErrorText))
  /\ pc' = "ParseFailed"
  /\ UNCHANGED <<sessionId, prompt, messages, rounds, current, toolIdx>>
  /\ UNCHANGED <<fsVars, hostVars, turnVars, returned, lastDrain>>
  /\ UNCHANGED prompts
  /\ UNCHANGED touched

\* main, lines 280-283: loadSystemPrompt or mkdirSync throws outside any try
StartupCrash ==
  /\ pc = "Starting"
  /\ world.stdin.parses
  /\ world.fault
  /\ sessionId' = SessionIdAt(world.now)
  /\ pc' = "Crashed"
  /\ UNCHANGED <<prompt, messages, rounds, current, toolIdx, stdout>>
  /\ UNCHANGED <<fsVars, hostVars, turnVars, returned, lastDrain>>
  /\ UNCHANGED prompts
  /\ UNCHANGED touched

\* prompt += '\n' + pending.join('\n'), when something was pending
InitialPrompt(text, pending) ==
  IF Len(pending) > 0 THEN text \o <<NL>> \o JoinNL(pending) ELSE text

\* the start without the unlinkSync of the sentinel
StartKeepsSentinel ==
  /\ pc = "Starting"
  /\ world.stdin.parses
  /\ ~world.fault
  /\ sessionId' = SessionIdAt(world.now)
  /\ sentinel' = sentinel
  /\ LET pending == drainIpcInput(dir)
     IN /\ dir' = pending.dir
        /\ prompt' = InitialPrompt(world.stdin.prompt, pending.messages)
        /\ lastDrain' = Drained(dir, pending)
  /\ pc' = "Running"
  /\ UNCHANGED <<messages, rounds, current, toolIdx, stdout, histFile>>
  /\ UNCHANGED <<hostVars, turnVars, returned>>
  /\ UNCHANGED prompts
  /\ UNCHANGED touched

\* main, lines 270-293
Start ==
  /\ pc = "Starting"
  /\ world.stdin.parses
  /\ ~world.fault
  /\ sessionId' = SessionIdAt(world.now)
  /\ sentinel' = FALSE
  /\ LET pending == drainIpcInput(dir)
     IN /\ dir' = pending.dir
        /\ prompt' = InitialPrompt(world.stdin.prompt, pending.messages)
        /\ lastDrain' = Drained(dir, pending)
  /\ pc' = "Running"
  /\ UNCHANGED <<messages, rounds, current, toolIdx, stdout, histFile>>
  /\ UNCHANGED <<hostVars, turnVars, returned>>
  /\ UNCHANGED prompts
  /\ UNCHANGED touched

\* the loop giving up when the sentinel is there
whileCondOrClose(r) == r < MAX_TOOL_ROUNDS /\ ~sentinel

\* the loop test off by one
whileCondInclusive(r) == r <= MAX_TOOL_ROUNDS

\* while (rounds < MAX_TOOL_ROUNDS)
whileCond(r) == r < MAX_TOOL_ROUNDS

\* the heartbeat without newSessionId
HeartbeatNoId(sid) == ContainerOutput("success", JsonNull, Absent, Absent)

SuccessFrame(text, sid) == ContainerOutput("success", ResultOf(text), sid, Absent)
Heartbeat(sid) == ContainerOutput("success", JsonNull, sid, Absent)

\* the heartbeat written before the close check instead of after it
FinishTurnHeartbeatFirst(text, how) ==
  LET close == shouldClose(sentinel)
      out == writeOutput(stdout, SuccessFrame(text, sessionId))
  IN /\ sentinel' = close.sentinel
     /\ stdout' = writeOutput(out, Heartbeat(sessionId))
     /\ pc' = IF close.result THEN "Closed" ELSE "AwaitingInput"
     /\ returned' = Append(returned, text)
     /\ ending' = how
     /\ messages' = <<>>
     /\ rounds' = 0
     /\ current' = NoChoice
     /\ toolIdx' = 0

\* main, lines 302-318: runConversation has returned text
FinishTurn(text, how) ==
  LET close == shouldClose(sentinel)
      out == writeOutput(stdout, SuccessFrame(text, sessionId))
  IN /\ sentinel' = close.sentinel
     /\ stdout' = IF close.result THEN out ELSE writeOutput(out, Heartbeat(sessionId))
     /\ pc' = IF close.result THEN "Closed" ELSE "AwaitingInput"
     /\ returned' = Append(returned, text)
     /\ ending' = how
     /\ messages' = <<>>
     /\ rounds' = 0
     /\ current' = NoChoice
     /\ toolIdx' = 0

\* runConversation, lines 107-132: up to the first completion call
BeginTurn ==
  /\ pc = "Running"
  /\ LET history == loadHistory(histFile)
         userEntry == HistoryMessage("user", prompt)
     IN /\ histFile' = appendHistory(histFile, userEntry)
        /\ messages' = <<ChatMessage("system", SystemPrompt, <<>>, "")>>
                         \o historyToOpenAI(Append(history, userEntry))
        /\ appended' = <<userEntry>>
  /\ rounds' = 1
  /\ pc' = "Calling"
  /\ hist0' = histFile
  /\ turnCalls' = 1
  /\ onlyTools' = TRUE
  /\ logWritten' = FALSE
  /\ ending' = ""
  /\ UNCHANGED <<sessionId, prompt, current, toolIdx, stdout, dir, sentinel>>
  /\ UNCHANGED <<hostVars, returned, lastDrain>>
  /\ prompts' = Append(prompts, prompt)
  /\ touched' = <<>>

\* the failure reported with the exception text as the result as well
CompletionThrowsAsResult ==
  /\ pc = "Calling"
  /\ stdout' = writeOutput(stdout,
                 ContainerOutput("error", JsonStr(CompletionErrorText), sessionId,
                                 CompletionErrorText))
  /\ pc' = "Failed"
  /\ UNCHANGED <<sessionId, prompt, messages, rounds, current, toolIdx>>
  /\ UNCHANGED <<fsVars, hostVars, turnVars, returned, lastDrain>>
  /\ UNCHANGED prompts
  /\ UNCHANGED touched

\* main, lines 327-336: the completion call rejects
CompletionThrows ==
  /\ pc = "Calling"
  /\ stdout' = writeOutput(stdout,
                 ContainerOutput("error", JsonNull, sessionId, CompletionErrorText))
  /\ pc' = "Failed"
  /\ UNCHANGED <<sessionId, prompt, messages, rounds, current, toolIdx>>
  /\ UNCHANGED <<fsVars, hostVars, turnVars, returned, lastDrain>>
  /\ UNCHANGED prompts
  /\ UNCHANGED touched

\* the assistant message pushed without its tool_calls
AssistantMessageNoCalls(resp) == ChatMessage("assistant", resp.content, <<>>, "")

AssistantMessage(resp) == ChatMessage("assistant", resp.content, resp.calls, "")

\* the answer saved as the service gave it, not as cleaned
ReturnAnswerRaw(file, resp, how) ==
  LET text == stripThinkTags(resp.content)
      entry == HistoryMessage("assistant", resp.content)
  IN /\ histFile' = appendHistory(file, entry)
     /\ appended' = Append(appended, entry)
     /\ FinishTurn(text, how)

\* appendHistory({role: 'assistant', content: text}); return text
ReturnAnswer(file, resp, how) ==
  LET text == stripThinkTags(resp.content)
      entry == HistoryMessage("assistant", text)
  IN /\ histFile' = appendHistory(file, entry)
     /\ appended' = Append(appended, entry)
     /\ FinishTurn(text, how)

\* the no-response text written to the log like an answer
CompletionReturnsLogsNoResponse ==
  /\ pc = "Calling"
  /\ \E resp \in Responses(rounds) :
       IF ~resp.hasChoice
         THEN /\ FinishTurn(NoResponseText, "nochoice")
              /\ onlyTools' = FALSE
              /\ histFile' = appendHistory(histFile, HistoryMessage("assistant", NoResponseText))
              /\ appended' = Append(appended, HistoryMessage("assistant", NoResponseText))
       ELSE IF resp.calls = <<>>
         THEN /\ ReturnAnswer(histFile, resp, "final")
              /\ onlyTools' = FALSE
       ELSE /\ messages' = Append(messages, AssistantMessage(resp))
            /\ current' = resp
            /\ toolIdx' = 1
            /\ pc' = "Tooling"
            /\ onlyTools' = (onlyTools /\ resp.finish # "stop")
            /\ UNCHANGED <<rounds, stdout, sentinel, histFile, appended, returned, ending>>
  /\ UNCHANGED <<sessionId, prompt, dir>>
  /\ UNCHANGED <<hostVars, hist0, turnCalls, logWritten, lastDrain>>
  /\ UNCHANGED prompts
  /\ touched' = <<>>

\* runConversation, lines 134-159: the completion call resolves
CompletionReturns ==
  /\ pc = "Calling"
  /\ \E resp \in Responses(rounds) :
       IF ~resp.hasChoice
         THEN /\ FinishTurn(NoResponseText, "nochoice")
              /\ onlyTools' = FALSE
              /\ UNCHANGED <<histFile, appended>>
       ELSE IF resp.calls = <<>>
         THEN /\ ReturnAnswer(histFile, resp, "final")
              /\ onlyTools' = FALSE
       ELSE /\ messages' = Append(messages, AssistantMessage(resp))
            /\ current' = resp
            /\ toolIdx' = 1
            /\ pc' = "Tooling"
            /\ onlyTools' = (onlyTools /\ resp.finish # "stop")
            /\ UNCHANGED <<rounds, stdout, sentinel, histFile, appended, returned, ending>>
  /\ UNCHANGED <<sessionId, prompt, dir>>
  /\ UNCHANGED <<hostVars, hist0, turnCalls, logWritten, lastDrain>>
  /\ UNCHANGED prompts
  /\ touched' = <<>>

\* the tool loop with JSON.parse of the arguments outside any try
ToolReturnsUnguarded ==
  /\ pc = "Tooling"
  /\ \E extOk \in BOOLEAN :
       LET call == current.calls[toolIdx]
           done == executeTool(call.name, parseArguments(call), extOk)
           file == WriteEffect(histFile, done)
           pushed == Append(messages, ChatMessage("tool", done.result, <<>>, call.id))
       IN /\ logWritten' = (logWritten \/ (done.wrote /\ done.target = HISTORY_FILE))
          /\ touched' = done.touched
          /\ IF ~call.parses
               THEN /\ stdout' = writeOutput(stdout,
                                   ContainerOutput("error", JsonNull, sessionId,
                                                   <<"Unexpected token">>))
                    /\ pc' = "Failed"
                    /\ UNCHANGED <<messages, rounds, current, toolIdx, sentinel, histFile>>
                    /\ UNCHANGED <<appended, turnCalls, returned, ending>>
             ELSE IF toolIdx < Len(current.calls)
               THEN /\ toolIdx' = toolIdx + 1
                    /\ messages' = pushed
                    /\ histFile' = file
                    /\ UNCHANGED <<pc, rounds, current, stdout, sentinel>>
                    /\ UNCHANGED <<appended, turnCalls, returned, ending>>
             ELSE IF current.finish = "stop"
               THEN /\ ReturnAnswer(file, current, "stop")
                    /\ UNCHANGED turnCalls
             ELSE IF whileCond(rounds)
               THEN /\ rounds' = rounds + 1
                    /\ turnCalls' = turnCalls + 1
                    /\ pc' = "Calling"
                    /\ messages' = pushed
                    /\ histFile' = file
                    /\ toolIdx' = 0
                    /\ current' = NoChoice
                    /\ UNCHANGED <<stdout, sentinel, appended, returned, ending>>
             ELSE /\ FinishTurn(MaxRoundsText, "maxrounds")
                  /\ histFile' = file
                  /\ UNCHANGED <<turnCalls, appended>>
  /\ UNCHANGED <<sessionId, prompt, dir>>
  /\ UNCHANGED <<hostVars, hist0, onlyTools, lastDrain>>
  /\ UNCHANGED prompts

\* the tool loop with the finish reason looked at after the first tool
ToolReturnsStopsEarly ==
  /\ pc = "Tooling"
  /\ \E extOk \in BOOLEAN :
       LET call == current.calls[toolIdx]
           done == executeTool(call.name, parseArguments(call), extOk)
           file == WriteEffect(histFile, done)
           pushed == Append(messages, ChatMessage("tool", done.result, <<>>, call.id))
       IN /\ logWritten' = (logWritten \/ (done.wrote /\ done.target = HISTORY_FILE))
          /\ touched' = done.touched
          /\ IF toolIdx < Len(current.calls) /\ current.finish # "stop"
               THEN /\ toolIdx' = toolIdx + 1
                    /\ messages' = pushed
                    /\ histFile' = file
                    /\ UNCHANGED <<pc, rounds, current, stdout, sentinel>>
                    /\ UNCHANGED <<appended, turnCalls, returned, ending>>
             ELSE IF current.finish = "stop"
               THEN /\ ReturnAnswer(file, current, "stop")
                    /\ UNCHANGED turnCalls
             ELSE IF whileCond(rounds)
               THEN /\ rounds' = rounds + 1
                    /\ turnCalls' = turnCalls + 1
                    /\ pc' = "Calling"
                    /\ messages' = pushed
                    /\ histFile' = file
                    /\ toolIdx' = 0
                    /\ current' = NoChoice
                    /\ UNCHANGED <<stdout, sentinel, appended, returned, ending>>
             ELSE /\ FinishTurn(MaxRoundsText, "maxrounds")
                  /\ histFile' = file
                  /\ UNCHANGED <<turnCalls, appended>>
  /\ UNCHANGED <<sessionId, prompt, dir>>
  /\ UNCHANGED <<hostVars, hist0, onlyTools, lastDrain>>
  /\ UNCHANGED prompts

\* runConversation, lines 159-191: executeTool resolves
ToolReturns ==
  /\ pc = "Tooling"
  /\ \E extOk \in BOOLEAN :
       LET call == current.calls[toolIdx]
           done == executeTool(call.name, parseArguments(call), extOk)
           file == WriteEffect(histFile, done)
           pushed == Append(messages, ChatMessage("tool", done.result, <<>>, call.id))
       IN /\ logWritten' = (logWritten \/ (done.wrote /\ done.target = HISTORY_FILE))
          /\ touched' = done.touched
          /\ IF toolIdx < Len(current.calls)
               THEN /\ toolIdx' = toolIdx + 1
                    /\ messages' = pushed
                    /\ histFile' = file
                    /\ UNCHANGED <<pc, rounds, current, stdout, sentinel>>
                    /\ UNCHANGED <<appended, turnCalls, returned, ending>>
             ELSE IF current.finish = "stop"
               THEN /\ ReturnAnswer(file, current, "stop")
                    /\ UNCHANGED turnCalls
             ELSE IF whileCond(rounds)
               THEN /\ rounds' = rounds + 1
                    /\ turnCalls' = turnCalls + 1
                    /\ pc' = "Calling"
                    /\ messages' = pushed
                    /\ histFile' = file
                    /\ toolIdx' = 0
                    /\ current' = NoChoice
                    /\ UNCHANGED <<stdout, sentinel, appended, returned, ending>>
             ELSE /\ FinishTurn(MaxRoundsText, "maxrounds")
                  /\ histFile' = file
                  /\ UNCHANGED <<turnCalls, appended>>
  /\ UNCHANGED <<sessionId, prompt, dir>>
  /\ UNCHANGED <<hostVars, hist0, onlyTools, lastDrain>>
  /\ UNCHANGED prompts

\* the poll with the drained files left in the mailbox
PollKeepsFiles ==
  /\ pc = "AwaitingInput"
  /\ LET p == poll(sentinel, dir)
     IN /\ sentinel' = p.sentinel
        /\ dir' = dir
        /\ pc' = CASE p.outcome = "closed" -> "Closed"
                   [] p.outcome = "text" -> "Running"
                   [] OTHER -> "AwaitingInput"
        /\ prompt' = IF p.outcome = "text" THEN p.text ELSE prompt
        /\ lastDrain' = IF p.outcome = "closed" THEN lastDrain
                        ELSE Drained(dir, drainIpcInput(dir))
  /\ UNCHANGED <<sessionId, messages, rounds, current, toolIdx, stdout, histFile>>
  /\ UNCHANGED <<hostVars, turnVars, returned>>
  /\ UNCHANGED prompts
  /\ UNCHANGED touched

\* waitForIpcMessage, lines 234-244, and main, lines 318-325
Poll ==
  /\ pc = "AwaitingInput"
  /\ LET p == poll(sentinel, dir)
     IN /\ sentinel' = p.sentinel
        /\ dir' = p.dir
        /\ pc' = CASE p.outcome = "closed" -> "Closed"
                   [] p.outcome = "text" -> "Running"
                   [] OTHER -> "AwaitingInput"
        /\ prompt' = IF p.outcome = "text" THEN p.text ELSE prompt
        /\ lastDrain' = IF p.outcome = "closed" THEN lastDrain
                        ELSE Drained(dir, drainIpcInput(dir))
  /\ UNCHANGED <<sessionId, messages, rounds, current, toolIdx, stdout, histFile>>
  /\ UNCHANGED <<hostVars, turnVars, returned>>
  /\ UNCHANGED prompts
  /\ UNCHANGED touched

(* ------------------------------ the host ------------------------------ *)

\* the host writes a message file into the mailbox
HostDrop ==
  /\ pc \notin Ended \cup {"Starting"}
  /\ hostFiles < MaxHostFiles
  /\ hostFiles < Len(world.script)
  /\ dir' = Append(dir, world.script[hostFiles + 1])
  /\ hostFiles' = hostFiles + 1
  /\ UNCHANGED <<procVars, sentinel, histFile, world, closeAsked>>
  /\ UNCHANGED <<turnVars, returned, lastDrain>>
  /\ UNCHANGED prompts
  /\ UNCHANGED touched

\* the host creates the _close sentinel
HostClose ==
  /\ pc \notin Ended \cup {"Starting"}
  /\ ~sentinel
  /\ sentinel' = TRUE
  /\ closeAsked' = TRUE
  /\ UNCHANGED <<procVars, dir, histFile, world, hostFiles>>
  /\ UNCHANGED <<turnVars, returned, lastDrain>>
  /\ UNCHANGED prompts
  /\ UNCHANGED touched

Next ==
  \/ ParseFailure
  \/ StartupCrash
  \/ Start
  \/ BeginTurn
  \/ CompletionThrows
  \/ CompletionReturns
  \/ ToolReturns
  \/ Poll
  \/ HostDrop
  \/ HostClose

Spec == Init /\ [][Next]_vars

(* ---------------------------- properties ------------------------------ *)

\* the records on standard output, read the way the host reads them
Frames(out) == [k \in 1..(Len(out) \div 3) |-> out[3 * k - 1].rec]
NewFrames(before, after) == SubSeq(Frames(after), Len(Frames(before)) + 1, Len(Frames(after)))

\* the last finished turn is still the one the turn history describes
TurnDone == returned # <<>> /\ pc \in {"AwaitingInput", "Closed"}
LastReturned == returned[Len(returned)]

ResultFrame(result, sid) ==
  [status |-> "success", result |-> result, newSessionId |-> sid, error |-> Absent]
HeartbeatFrame(sid) == ResultFrame(JsonNull, sid)

TextOrNull(text) == IF text = <<>> THEN JsonNull ELSE JsonStr(text)

\* A step that finishes a turn writes the result frame and, unless the sentinel
\* was there, one heartbeat; the result frame holds the text, or with emptyAsNull
\* a null result for the empty text.
TurnFramesStep(emptyAsNull) ==
  Len(returned') = Len(returned) + 1 =>
    LET text == returned'[Len(returned')]
        carried == IF emptyAsNull THEN TextOrNull(text) ELSE JsonStr(text)
        result == ResultFrame(carried, sessionId)
    IN IF sentinel
         THEN /\ NewFrames(stdout, stdout') = <<result>>
              /\ pc' = "Closed"
       ELSE /\ NewFrames(stdout, stdout') = <<result, HeartbeatFrame(sessionId)>>
            /\ pc' = "AwaitingInput"

\* C1, as stated: every turn that completes writes one success frame carrying the
\* result text and the sessionId, then closes without a further frame if the
\* sentinel is there and else writes one heartbeat and awaits input.
C1_ResultFrameCarriesText == [][TurnFramesStep(FALSE)]_vars

\* C1, amended: the same, with the result frame carrying the result text, or a
\* null result when the text is empty; a run whose only turn ended with no sentinel
\* has written exactly the result frame and the heartbeat and waits for input.
C1_TurnFrames ==
  [][/\ TurnFramesStep(TRUE)
     /\ (pc' = "AwaitingInput" /\ Len(returned') = 1) =>
          Frames(stdout') = <<ResultFrame(TextOrNull(returned'[1]), sessionId'),
                              HeartbeatFrame(sessionId')>>]_vars

C1_Witness ==
  /\ pc = "AwaitingInput"
  /\ returned = << <<"hello">> >>
  /\ Len(stdout) = 6

\* C2: a turn calls the completion service at most 15 times, the round counter
\* counting from zero in every turn; a turn whose answers all asked for tools
\* without saying stop made exactly 15 calls, returned the maximum-rounds text
\* and appended no assistant message.
C2_RoundCap ==
  /\ turnCalls <= 15
  /\ pc \in {"Calling", "Tooling"} => rounds = turnCalls
  /\ (TurnDone /\ (onlyTools \/ ending = "maxrounds")) =>
       /\ onlyTools /\ ending = "maxrounds"
       /\ turnCalls = 15
       /\ LastReturned = MaxRoundsText
       /\ appended = <<HistoryMessage("user", prompt)>>
       /\ \A i \in 1..Len(appended) : appended[i].role # "assistant"
       /\ ~logWritten => histFile = Append(hist0, StringifyHistory(appended[1]))

C2_Witness ==
  /\ TurnDone
  /\ Len(returned) = 2
  /\ returned[1] = MaxRoundsText
  /\ ending = "maxrounds"
  /\ turnCalls = 15

NoThinkSpan(text) ==
  \A i \in 1..Len(text) : text[i] = "<think>" => FirstAt(text, "</think>", i + 1) = 0
Trimmed(text) == text = <<>> \/ (~IsSpace(text[1]) /\ ~IsSpace(text[Len(text)]))

\* C3: a turn that ends with an assistant message without tool calls returns the
\* cleaned text and appends exactly two records, the user message and then the
\* cleaned assistant message; nothing of the intermediate rounds is appended.
C3_FinalAnswerAppendsTwo ==
  (TurnDone /\ ending = "final") =>
    /\ NoThinkSpan(LastReturned) /\ Trimmed(LastReturned)
    /\ appended = <<HistoryMessage("user", prompt), HistoryMessage("assistant", LastReturned)>>
    /\ histFile[Len(histFile)] = StringifyHistory(HistoryMessage("assistant", LastReturned))
    /\ ~logWritten =>
         histFile = hist0 \o <<StringifyHistory(appended[1]), StringifyHistory(appended[2])>>

C3_Witness ==
  /\ TurnDone
  /\ ending = "final"
  /\ turnCalls = 15
  /\ LastReturned = <<"hello">>
  /\ ~logWritten

\* C4: the stored log only grows at its end: every step leaves the stored lines
\* in place and adds zero or more lines after them.
C4_AppendOnly == [][IsPrefix(histFile, histFile')]_vars

\* C5: standard output is a sequence of whole frames: start marker line, one
\* record line, end marker line.
C5_Framing ==
  /\ Len(stdout) % 3 = 0
  /\ \A i \in 1..Len(stdout) :
       stdout[i].line = CASE i % 3 = 1 -> OUTPUT_START_MARKER
                          [] i % 3 = 2 -> "json"
                          [] OTHER -> OUTPUT_END_MARKER

C5_Witness == Len(stdout) >= 9 /\ pc = "Failed"

AllFramesCarry(out, sid) ==
  \A k \in 1..Len(Frames(out)) : Frames(out)[k].newSessionId = sid

\* C6, as stated: the sessionId never changes once generated and every frame on
\* standard output carries it.
C6_EveryFrameCarriesId ==
  [][/\ sessionId # Absent => sessionId' = sessionId
     /\ stdout' # <<>> => (sessionId' # Absent /\ AllFramesCarry(stdout', sessionId'))]_vars

\* C6, amended: the sessionId never changes once generated and every frame written
\* after the initial input parsed carries it; the frame that reports a parse
\* failure is written before a sessionId exists and carries none.
C6_FramesAfterParseCarryId ==
  [][/\ sessionId # Absent => sessionId' = sessionId
     /\ (stdout' # <<>> /\ pc' # "ParseFailed") =>
          (sessionId' # Absent /\ AllFramesCarry(stdout', sessionId'))
     /\ pc' = "ParseFailed" =>
          (sessionId' = Absent /\ AllFramesCarry(stdout', Absent))]_vars

C6_Witness ==
  /\ pc = "Failed"
  /\ Len(returned) >= 1
  /\ Frames(stdout)[Len(Frames(stdout))].status = "error"
  /\ Frames(stdout)[1].result # JsonNull

HasActionable(files) == \E i \in 1..Len(files) : files[i].json /\ Actionable(files[i])

\* C7: the controller leaves AwaitingInput only for Closed, on a poll that sees the
\* sentinel, or for Running, on a poll that drains an actionable message; while it
\* stays it writes no frame, and with neither sentinel nor actionable message it
\* stays.
C7_WaitNeverTimesOut ==
  [][pc = "AwaitingInput" =>
       /\ stdout' = stdout
       /\ pc' \in {"AwaitingInput", "Closed", "Running"}
       /\ pc' = "Closed" => sentinel
       /\ pc' = "Running" => (~sentinel /\ HasActionable(dir))
       /\ (~sentinel /\ ~HasActionable(dir)) => pc' = "AwaitingInput"]_vars

C7_Witness ==
  /\ pc = "AwaitingInput"
  /\ lastDrain.ran
  /\ lastDrain.before # <<>>
  /\ lastDrain.messages = <<>>
  /\ Len(returned) = 1

(* Close under fair scheduling: the event loop runs every continuation that is
   ready and fires the poll timer, and every completion and tool call returns. *)

LiveInit == Init /\ world = RestartWorld

LiveNext ==
  \/ Start
  \/ BeginTurn
  \/ CompletionReturns
  \/ ToolReturns
  \/ Poll
  \/ HostDrop
  \/ HostClose

\* what the process itself does next; pc enables at most one of these at a time
Worker == Start \/ BeginTurn \/ CompletionReturns \/ ToolReturns \/ Poll

LiveSpec == LiveInit /\ [][LiveNext]_vars /\ WF_vars(Worker)

NoErrorFrame == \A k \in 1..Len(Frames(stdout)) : Frames(stdout)[k].status # "error"

\* C8: once the host has created the sentinel after startup, the process
\* eventually is Closed, with exit status 0 and no error frame written.
C8_CloseLiveness ==
  closeAsked ~> (pc = "Closed" /\ ExitStatus = 0 /\ NoErrorFrame)

\* closed by the sentinel test after a turn during which the sentinel appeared
C8_Witness ==
  /\ closeAsked
  /\ pc = "Closed"
  /\ Len(stdout) = 3
  /\ turnCalls = 15

TextsOf(files) == {files[i].body.text : i \in 1..Len(files)}
JsonFilesOf(files) == {files[i] : i \in {j \in 1..Len(files) : files[j].json}}
FileWithText(files, text) ==
  CHOOSE f \in JsonFilesOf(files) : f.body.text = text

\* C9: a drain of a mailbox whose message files are all well formed returns their
\* texts in the order of the file names, and none of the files is left.
C9_DrainInNameOrder ==
  (lastDrain.ran /\ \A f \in JsonFilesOf(lastDrain.before) : Actionable(f)) =>
    LET before == lastDrain.before
        texts == lastDrain.messages
    IN /\ Len(texts) = Cardinality(JsonFilesOf(before))
       /\ \A f \in JsonFilesOf(before) : \E i \in 1..Len(texts) : texts[i] = f.body.text
       /\ \A i, j \in 1..Len(texts) :
            i < j => NameLess(FileWithText(before, texts[i]).name,
                              FileWithText(before, texts[j]).name)
       /\ JsonFilesOf(lastDrain.after) = {}

\* drained after a turn: created as 2.json then 10.json, returned as 10 then 2
C9_Witness ==
  /\ lastDrain.ran
  /\ lastDrain.before = <<f2, f10>>
  /\ lastDrain.messages = << <<"ten">>, <<"two">> >>
  /\ lastDrain.after = <<>>
  /\ Len(returned) >= 1

\* C10: after shouldClose has returned true, a second call finds no sentinel and
\* returns false, the host not having created it again.
C10_SentinelConsumed ==
  /\ shouldClose(TRUE).result
  /\ ~shouldClose(shouldClose(TRUE).sentinel).result
  /\ pc = "Closed" => (~sentinel /\ ~shouldClose(sentinel).result)

C10_Witness == pc = "Closed" /\ closeAsked /\ ~sentinel

(* ------------------------- the history that is loaded ------------------ *)

\* runConversation has just loaded the log hist0 and built the first request
JustLoaded == pc = "Calling" /\ rounds = 1

NoGarbage(file) == \A i \in 1..Len(file) : file[i].kind = "json"
GarbageAt(file) == {i \in 1..Len(file) : file[i].kind # "json"}
ParseAll(file) == [i \in 1..Len(file) |-> ParseHistory(file[i])]
InsertAt(s, p, x) == SubSeq(s, 1, p) \o <<x>> \o SubSeq(s, p + 1, Len(s))
RemoveAt(s, p) == SubSeq(s, 1, p - 1) \o SubSeq(s, p + 1, Len(s))
LastFifty(stored) ==
  IF Len(stored) > 50 THEN SubSeq(stored, Len(stored) - 49, Len(stored)) ELSE stored

\* the first request of a turn: system prompt, the history given, the user message
FirstRequest(history) ==
  <<ChatMessage("system", SystemPrompt, <<>>, "")>>
    \o [i \in 1..Len(history) |-> ChatMessage(history[i].role, history[i].content, <<>>, "")]
    \o <<ChatMessage("user", prompt, <<>>, "")>>

\* C11: from a log of well-formed lines the load gives the stored messages in
\* order, all of them when there are at most 50 and the last 50 when there are
\* more; the turn's first request is built from exactly these.
C11_LoadLastFifty ==
  (JustLoaded /\ NoGarbage(hist0)) =>
    LET stored == ParseAll(hist0)
        n == Len(stored)
        h == loadHistory(hist0)
    IN /\ n > 50 => (Len(h) = 50 /\ \A i \in 1..50 : h[i] = stored[n - 50 + i])
       /\ n <= 50 => h = stored
       /\ messages = FirstRequest(LastFifty(stored))

C11_Witness ==
  /\ JustLoaded
  /\ NoGarbage(hist0)
  /\ Len(hist0) = 51
  /\ Len(messages) = 52
  /\ messages[2].role = "assistant"

\* C12: a log of well-formed lines with one line the parser rejects, wherever it
\* stands, loads without failing as the well-formed messages in order, bounded
\* to the last 50; the lines after the bad one are among them.
C12_LoadSkipsBadLine ==
  JustLoaded =>
    /\ NoGarbage(hist0) =>
         \A p \in 0..Len(hist0) :
           loadHistory(InsertAt(hist0, p, GarbageLine)) = LastFifty(ParseAll(hist0))
    /\ Cardinality(GarbageAt(hist0)) = 1 =>
         LET p == CHOOSE i \in GarbageAt(hist0) : TRUE
             good == ParseAll(RemoveAt(hist0, p))
         IN /\ loadHistory(hist0) = LastFifty(good)
            /\ messages = FirstRequest(LastFifty(good))

C12_Witness ==
  /\ JustLoaded
  /\ hist0 = ShortLog
  /\ Len(messages) = 4
  /\ messages[3].content = <<"older">>

(* ------------------------------- faults ------------------------------- *)

ErrorFrame(sid, text) ==
  [status |-> "error", result |-> JsonNull, newSessionId |-> sid, error |-> text]

\* the tool-role message runConversation pushes for a call
ToolMessage(call, text) == ChatMessage("tool", text, <<>>, call.id)

\* C13: the process fails only when the completion call itself rejects.  A log
\* line or a mailbox file the parser rejects is skipped, a tool call whose
\* arguments do not parse runs on the empty argument object, a tool that throws
\* or is unknown gives a text that says so, an answer without a choice gives the
\* no-response text; every turn that ends writes a success frame first.
C13_RecoverableFaultsAbsorbed ==
  [][/\ pc' = "Failed" =>
          /\ pc = "Calling"
          /\ NewFrames(stdout, stdout') = <<ErrorFrame(sessionId, CompletionErrorText)>>
     /\ Len(returned') = Len(returned) + 1 =>
          /\ NewFrames(stdout, stdout')[1].status = "success"
          /\ ending' = "nochoice" => returned'[Len(returned')] = NoResponseText
     /\ (pc = "Tooling" /\ messages' # <<>> /\ messages' # messages) =>
          LET call == current.calls[toolIdx]
              pushed == messages'[Len(messages')]
          IN /\ Len(messages') = Len(messages) + 1
             /\ pushed.role = "tool" /\ pushed.tool_call_id = call.id
             /\ pushed.content # <<>>
             /\ ~call.parses =>
                  \E ok \in BOOLEAN : pushed = ToolMessage(call, executeTool(call.name, EmptyArgs, ok).result)
             /\ call.name = "web_search" => pushed.content = <<"Unknown tool: ", "web_search">>
             /\ (call.name = "write_file" /\ ~parseArguments(call).hasPath) =>
                  SubSeq(pushed.content, 1, 3) = <<"Tool error (", "write_file", "): ">>]_vars

\* after a restart on a log with a bad line: a turn that called tools and then got
\* no choice has ended, a mailbox file that does not parse has been drained, and
\* the process waits with no error frame written
C13_Witness ==
  /\ world = RestartWorld
  /\ pc = "AwaitingInput"
  /\ returned = <<NoResponseText>>
  /\ turnCalls = 2
  /\ lastDrain.ran /\ lastDrain.before = <<f3>> /\ lastDrain.messages = <<>>
  /\ NoErrorFrame

LastFrame == Frames(stdout)[Len(Frames(stdout))]

\* C14: once the initial input has parsed, a process that has ended with a
\* non-zero status is Failed, and the last frame on standard output is an error
\* frame carrying the sessionId.
C14_AbnormalExitOnlyByFailed ==
  (pc \in Ended /\ world.stdin.parses /\ ExitStatus # 0) =>
    /\ pc = "Failed"
    /\ stdout # <<>>
    /\ LastFrame.status = "error"
    /\ LastFrame.newSessionId = sessionId /\ sessionId # Absent

\* C15: a process whose initial input did not parse has written exactly one error
\* frame and ended with a non-zero status, with no completion call made, the log
\* and the mailbox as it found them; and a process that has ended without ever
\* running a turn is one whose input did not parse.
C15_ParseFailureOnlyEarlyExit ==
  /\ pc = "ParseFailed" =>
       /\ Len(Frames(stdout)) = 1 /\ LastFrame.status = "error"
       /\ ExitStatus # 0
       /\ turnCalls = 0 /\ returned = <<>>
       /\ histFile = world.histFile /\ dir = world.dir
  /\ (pc \in Ended /\ turnCalls = 0) => pc = "ParseFailed"

\* what a turn can return: an answer of the service, cleaned, or a fixed text
AnswerTexts ==
  {stripThinkTags(c) : c \in Contents \cup {ToolContent}} \cup {NoResponseText, MaxRoundsText}
ExceptionTexts == {ParseErrorText, CompletionErrorText}

\* C16, as stated: no frame on standard output carries the text of an exception;
\* a frame carries a result text, one of the fixed texts, or nothing.
C16_NoExceptionTextOnStdout ==
  \A k \in 1..Len(Frames(stdout)) :
    LET f == Frames(stdout)[k]
    IN /\ f.error = Absent
       /\ f.result = JsonNull \/ f.result.str \in AnswerTexts

\* C16, amended: the result of every frame is a result text, one of the fixed
\* texts, or null, and a success frame has no error field; the text of an
\* exception is on standard output only as the error field of an error frame,
\* which has a null result, is the last frame, and ends the process. The text of
\* a tool's exception goes into the tool-role message, never into a frame.
C16_ExceptionTextOnlyInErrorFrame ==
  /\ \A k \in 1..Len(Frames(stdout)) :
       LET f == Frames(stdout)[k]
       IN /\ f.result = JsonNull \/ f.result.str \in AnswerTexts
          /\ f.status = "success" => f.error = Absent
          /\ f.status = "error" =>
               /\ f.result = JsonNull
               /\ f.error \in ExceptionTexts
               /\ k = Len(Frames(stdout))
               /\ pc \in {"Failed", "ParseFailed"}
  /\ \A i \in 1..Len(messages) :
       messages[i].role = "tool" => messages[i].content \notin AnswerTexts

\* a turn in which a tool threw has ended with its answer, and the next turn's
\* completion call has failed
C16_Witness ==
  /\ pc = "Failed"
  /\ Len(Frames(stdout)) = 3
  /\ Frames(stdout)[1].result = JsonStr(<<"hello">>)
  /\ LastFrame.error = CompletionErrorText

(* ----------------------- stripThinkTags on its own --------------------- *)

Tokens == {"<think>", "</think>", " ", "Hello"}
RECURSIVE TextsUpTo(_)
TextsUpTo(n) ==
  IF n = 0 THEN {<<>>}
  ELSE LET shorter == TextsUpTo(n - 1)
       IN shorter \cup {Append(t, tok) : t \in {u \in shorter : Len(u) = n - 1}, tok \in Tokens}
ExampleText == <<"<think>", "scratch", "</think>", "Hello">>
Texts == TextsUpTo(MaxTextLen) \cup {ExampleText, <<NL, "Hello", NL>>}

\* an answer of the completion service with the given content and no tool call
StripInit ==
  /\ world = RestartWorld
  /\ dir = <<>>
  /\ sentinel = FALSE
  /\ histFile = world.histFile
  /\ hostFiles = 0
  /\ pc = "Stripping"
  /\ sessionId = SessionIdAt(world.now)
  /\ prompt = world.stdin.prompt
  /\ messages = <<>>
  /\ rounds = 1
  /\ current \in {Response(TRUE, t, <<>>, "stop") : t \in Texts}
  /\ toolIdx = 0
  /\ stdout = <<>>
  /\ closeAsked = FALSE
  /\ hist0 = world.histFile
  /\ appended = <<>>
  /\ turnCalls = 1
  /\ onlyTools = TRUE
  /\ logWritten = FALSE
  /\ ending = ""
  /\ returned = <<>>
  /\ lastDrain = NoDrain
  /\ prompts = <<>>
  /\ touched = <<>>

\* const text = stripThinkTags(assistantMessage.content || '')
StripAnswer ==
  /\ pc = "Stripping"
  /\ returned' = Append(returned, stripThinkTags(current.content))
  /\ pc' = "Stripped"
  /\ UNCHANGED <<sessionId, prompt, messages, rounds, current, toolIdx, stdout>>
  /\ UNCHANGED <<fsVars, hostVars, turnVars, lastDrain>>
  /\ UNCHANGED prompts
  /\ UNCHANGED touched

StripSpec == StripInit /\ [][StripAnswer]_vars

RECURSIVE Scan(_, _, _)
\* the text read left to right: outside a span a token is kept, unless it opens a
\* span that some later token closes; inside, everything up to the closing marker
\* goes
Scan(t, k, inside) ==
  IF k > Len(t) THEN <<>>
  ELSE IF inside
    THEN Scan(t, k + 1, t[k] # "</think>")
  ELSE IF t[k] = "<think>" /\ \E j \in (k + 1)..Len(t) : t[j] = "</think>"
    THEN Scan(t, k + 1, TRUE)
  ELSE <<t[k]>> \o Scan(t, k + 1, FALSE)

\* without the white space before the first and after the last other token
Surrounded(t) ==
  LET solid == {i \in 1..Len(t) : ~IsSpace(t[i])}
  IN IF solid = {} THEN <<>>
     ELSE SubSeq(t, CHOOSE i \in solid : \A j \in solid : i <= j,
                    CHOOSE i \in solid : \A j \in solid : i >= j)

HasPair(t) == \E i, j \in 1..Len(t) : i < j /\ t[i] = "<think>" /\ t[j] = "</think>"

\* C17: the cleaned text is the text without its paired reasoning spans, markers
\* and content, and without surrounding white space; it holds no paired span; a
\* text with no pair comes back unchanged but for the white space around it.
C17_StripRemovesSpans ==
  pc = "Stripped" =>
    LET t == current.content
        r == returned[Len(returned)]
    IN /\ r = Surrounded(Scan(t, 1, FALSE))
       /\ ~HasPair(r)
       /\ Trimmed(r)
       /\ ~HasPair(t) => r = Surrounded(t)
       /\ t = ExampleText => r = <<"Hello">>

C17_Witness ==
  /\ pc = "Stripped"
  /\ current.content = ExampleText
  /\ returned = << <<"Hello">> >>

(* ----------------------------- the mailbox ----------------------------- *)

\* a step in which poll() runs: the process waits and it is not the host's step
PollStep ==
  /\ pc = "AwaitingInput"
  /\ hostFiles' = hostFiles
  /\ ~(~sentinel /\ sentinel')

\* the ControlMessage contract: it parses, its type is "message", it has a text
WellFormedMessage(f) == f.body.parses /\ f.body.type = "message" /\ f.body.text # <<>>
ActionableIn(files) == {f \in JsonFilesOf(files) : WellFormedMessage(f)}

\* C18, as stated: a poll that finds no sentinel and a file in the mailbox resolves
\* with the joined drained text and the next turn starts.
C18_ResolvesOnAnyFile ==
  [][(PollStep /\ ~sentinel /\ dir # <<>>) =>
       /\ pc' = "Running"
       /\ prompt' = JoinNL(lastDrain'.messages)]_vars

\* C18, amended: a poll that finds no sentinel and at least one actionable message
\* resolves on that poll with the drained texts joined by line breaks, every
\* actionable message's text among them, and leaves no message file; a poll that
\* finds only files that are not actionable messages goes back to sleep.
C18_ResolvesOnActionableFile ==
  [][(PollStep /\ ~sentinel) =>
       IF ActionableIn(dir) # {}
         THEN /\ pc' = "Running"
              /\ lastDrain'.before = dir
              /\ Len(lastDrain'.messages) = Cardinality(ActionableIn(dir))
              /\ prompt' = JoinNL(lastDrain'.messages)
              /\ Len(prompt') = 2 * Cardinality(ActionableIn(dir)) - 1
              /\ \A f \in ActionableIn(dir) : \E i \in 1..Len(prompt') : <<prompt'[i]>> = f.body.text
              /\ JsonFilesOf(dir') = {}
       ELSE pc' = "AwaitingInput" /\ prompt' = prompt]_vars

\* the second turn has been started by a poll that found two messages
C18_Witness ==
  /\ pc = "Running"
  /\ Len(returned) = 1
  /\ lastDrain.before = <<f2, f10>>
  /\ prompt = <<"ten", NL, "two">>

NotActionableIn(files) == JsonFilesOf(files) \ ActionableIn(files)

\* C19: a drain deletes the message files that are not actionable and takes no
\* text from them; a poll that finds no sentinel and only such files starts no
\* turn: the process goes on waiting with its prompt, its output, the log and
\* the turn's record as they were.
C19_NonActionableDiscarded ==
  [][/\ (lastDrain' # lastDrain) =>
          /\ NotActionableIn(lastDrain'.before) \cap JsonFilesOf(lastDrain'.after) = {}
          /\ \A f \in NotActionableIn(lastDrain'.before) :
               \A i \in 1..Len(lastDrain'.messages) :
                 f.body.text = <<>> \/ lastDrain'.messages[i] # f.body.text
          /\ \A f \in NotActionableIn(lastDrain'.before) :
               \A i \in 1..Len(prompt') : f.body.text = <<>> \/ <<prompt'[i]>> # f.body.text
     /\ (PollStep /\ ~sentinel /\ ActionableIn(dir) = {} /\ NotActionableIn(dir) # {}) =>
          /\ pc' = "AwaitingInput"
          /\ NotActionableIn(dir') = {}
          /\ UNCHANGED <<prompt, stdout, histFile, messages, rounds, returned, turnVars>>]_vars

\* after the first turn the host dropped a file that does not parse and one of
\* another type; the poll has removed both and the process still waits
C19_Witness ==
  /\ pc = "AwaitingInput"
  /\ Len(returned) = 1
  /\ lastDrain.ran
  /\ lastDrain.before = <<f3, f4>>
  /\ lastDrain.messages = <<>>
  /\ lastDrain.after = <<>>

TurnEnds == Len(returned') = Len(returned) + 1

\* C20: while a completion call or a tool is in flight the sentinel is not looked
\* at: with the sentinel there the turn goes on as it would without, the sentinel
\* stays, nothing is written, and the maximum-rounds text is returned only after
\* round 15; the step that ends the turn writes the result frame and nothing else
\* and goes to Closed, consuming the sentinel.  The sentinel is consumed only at
\* startup, at the end of a turn or by a poll.
C20_SentinelSampledBetweenTurns ==
  [][/\ (pc \in {"Calling", "Tooling"} /\ sentinel) =>
          /\ pc' \in {"Calling", "Tooling", "Closed", "Failed"}
          /\ pc' \in {"Calling", "Tooling"} => (sentinel' /\ stdout' = stdout)
          /\ pc' = "Closed" =>
               /\ TurnEnds
               /\ ~sentinel'
               /\ Len(NewFrames(stdout, stdout')) = 1
               /\ NewFrames(stdout, stdout')[1].status = "success"
               /\ ending' = "maxrounds" => rounds = MAX_TOOL_ROUNDS
          /\ TurnEnds => pc' = "Closed"
     /\ (sentinel /\ ~sentinel') =>
          (pc = "Starting" \/ pc = "AwaitingInput" \/ TurnEnds)]_vars

\* the sentinel appeared during the only turn, which went on to its second
\* completion call and a last tool, wrote its result and closed
C20_Witness ==
  /\ pc = "Closed"
  /\ closeAsked
  /\ Len(Frames(stdout)) = 1
  /\ turnCalls = 2
  /\ ending = "stop"

(* ------------------------ the sequence sent ---------------------------- *)

\* a step of the turn that is not the host's
InTurnStep == pc \in {"Calling", "Tooling"} /\ pc' \in {"Calling", "Tooling"} /\ messages' # messages

\* C21: the first request of a turn is the system message, the loaded history
\* oldest first and the new user message.  From then on the sequence only grows
\* at its end: an answer that asks for tools is added as it came, each call then
\* adds one tool-role message with the call's identifier, and the request of
\* the next round ends with that answer followed by one tool-role message per
\* call, in the order of the calls, whether or not arguments parsed or the tool
\* threw.
C21_RequestGrowsAtEnd ==
  [][/\ (pc = "Running" /\ pc' = "Calling") =>
          /\ messages' = FirstRequest(loadHistory(histFile))
          /\ messages'[1].role = "system"
          /\ messages'[Len(messages')] = ChatMessage("user", prompt, <<>>, "")
     /\ InTurnStep =>
          /\ IsPrefix(messages, messages')
          /\ Len(messages') = Len(messages) + 1
     /\ (InTurnStep /\ pc = "Calling") =>
          messages'[Len(messages')] =
            [role |-> "assistant", content |-> current'.content,
             tool_calls |-> current'.calls, tool_call_id |-> ""]
     /\ (InTurnStep /\ pc = "Tooling") =>
          LET n == toolIdx
              base == Len(messages') - n
          IN /\ messages'[base] =
                  [role |-> "assistant", content |-> current.content,
                   tool_calls |-> current.calls, tool_call_id |-> ""]
             /\ \A i \in 1..n :
                  /\ messages'[base + i].role = "tool"
                  /\ messages'[base + i].tool_call_id = current.calls[i].id
             /\ pc' = "Calling" => n = Len(current.calls)]_vars

\* the second request of a turn on an empty log, after an answer that asked for a
\* tool with arguments that do not parse and for an unknown tool
C21_Witness ==
  /\ pc = "Calling"
  /\ rounds = 2
  /\ Len(messages) = 5
  /\ messages[3].tool_calls = <<callCalendar, callUnknown>>
  /\ messages[4].tool_call_id = callCalendar.id
  /\ messages[5] = ToolMessage(callUnknown, <<"Unknown tool: ", "web_search">>)

\* a step of the tool loop, not the host's
ToolStep == pc = "Tooling" /\ (toolIdx' # toolIdx \/ pc' # pc)

\* C22: an answer with tool calls and the completion reason "stop" ends the turn
\* in its round: each of its tools is run, and the step after the last one
\* appends the cleaned content of that answer to the log as one assistant
\* message, returns it, and makes no further completion call.
C22_StopEndsTurnAfterTools ==
  [][(ToolStep /\ current.finish = "stop") =>
       IF toolIdx < Len(current.calls)
         THEN pc' = "Tooling" /\ toolIdx' = toolIdx + 1 /\ ~TurnEnds /\ appended' = appended
       ELSE LET cleaned == Surrounded(Scan(current.content, 1, FALSE))
            IN /\ TurnEnds
               /\ pc' \in {"AwaitingInput", "Closed"}
               /\ ending' = "stop"
               /\ returned'[Len(returned')] = cleaned
               /\ appended' = Append(appended, [role |-> "assistant", content |-> cleaned])
               /\ Len(histFile') >= 1
               /\ histFile'[Len(histFile')] =
                    [kind |-> "json", role |-> "assistant", content |-> cleaned]
               /\ turnCalls' = turnCalls]_vars

\* a turn whose first answer asked for tools and said stop has ended after one
\* completion call with the answer's cleaned content
C22_Witness ==
  /\ TurnDone
  /\ ending = "stop"
  /\ turnCalls = 1
  /\ LastReturned = <<"hello">>
  /\ Len(appended) = 2
  /\ appended[2] = HistoryMessage("assistant", <<"hello">>)

(* ----------------------- a completion with no choice -------------------- *)

\* C23: a completion that carries no choice ends the turn at once with the fixed
\* no-response text: the step is taken from the completion call, so no tool of
\* that round runs and no further call is made, nothing is appended to the log,
\* and the text goes out in a success frame after which the session continues
\* (to the wait, or to Closed when the sentinel is there).
C23_NoChoiceEndsTurn ==
  [][(TurnEnds /\ ending' = "nochoice") =>
       /\ pc = "Calling"
       /\ pc' = IF sentinel THEN "Closed" ELSE "AwaitingInput"
       /\ returned'[Len(returned')] = <<"No response from model.">>
       /\ turnCalls' = turnCalls
       /\ appended' = appended
       /\ histFile' = histFile
       /\ NewFrames(stdout, stdout')[1] =
            ResultFrame(JsonStr(<<"No response from model.">>), sessionId)
       /\ \A k \in 1..Len(NewFrames(stdout, stdout')) :
            NewFrames(stdout, stdout')[k].status = "success"]_vars

\* a first round with no choice: the wait follows, and the log holds only the
\* user message of the turn
C23_Witness ==
  /\ pc = "AwaitingInput"
  /\ ending = "nochoice"
  /\ turnCalls = 1
  /\ LastReturned = NoResponseText
  /\ Len(appended) = 1
  /\ appended[1].role = "user"

(* ------------------------- exchanges in the log ------------------------- *)

\* C24: the log records completed exchanges only: once a turn is over, whether
\* it ended with an answer, with the no-response text, with the maximum-rounds
\* text or with a failure, the lines it appended are its user message followed
\* by its assistant message.
C24_CompletedExchangesOnly ==
  (pc \in {"AwaitingInput", "Closed", "Failed"} /\ appended # <<>>) =>
    /\ Len(appended) = 2
    /\ appended[1].role = "user"
    /\ appended[2].role = "assistant"

(* ------------------------ messages waiting at start --------------------- *)

\* the well-formed messages of a mailbox, by file name
InNameOrder(files) ==
  LET S == ActionableIn(files)
  IN CHOOSE s \in [1..Cardinality(S) -> S] :
       \A i, j \in 1..Cardinality(S) : i < j => NameLess(s[i].name, s[j].name)

TextsInNameOrder(files) ==
  [i \in 1..Len(InNameOrder(files)) |-> InNameOrder(files)[i].body.text]

\* text t occurs in prompt q
Occurs(t, q) ==
  t # <<>> /\ \E i \in 1..(Len(q) - Len(t) + 1) : SubSeq(q, i, i + Len(t) - 1) = t

\* C25: the well-formed messages in the mailbox at the start are consumed during
\* Starting: the first turn's prompt is the initial prompt followed, after a
\* newline, by their texts in file-name order joined by newlines, they are gone
\* from the mailbox, and the prompt of no later turn holds any of their texts.
C25_StartupMessagesFolded ==
  [][/\ (pc = "Starting" /\ pc' = "Running") =>
          /\ prompt' = IF ActionableIn(dir) = {} THEN world.stdin.prompt
                       ELSE world.stdin.prompt \o <<NL>> \o JoinNL(TextsInNameOrder(dir))
          /\ ActionableIn(dir') = {}
     /\ (prompts = <<>> /\ prompts' # <<>>) =>
          /\ prompts' = <<prompt>>
          /\ \A f \in ActionableIn(world.dir) : Occurs(f.body.text, prompt)
     /\ (prompts # <<>> /\ prompts' # prompts) =>
          \A f \in ActionableIn(world.dir) : ~Occurs(f.body.text, prompts'[Len(prompts')])]_vars

\* a second turn has begun in a run that found a message waiting at its start
C25_Witness ==
  /\ world = BacklogWorld
  /\ Len(prompts) = 2
  /\ prompts[1] = <<"hi", NL, "ten">>
  /\ prompts[2] = <<"two">>
  /\ pc = "Calling"

(* ----------------------- a sentinel left from before -------------------- *)

FirstResultWritten ==
  /\ returned # <<>>
  /\ Frames(stdout) # <<>>
  /\ Frames(stdout)[1] = ResultFrame(TextOrNull(returned[1]), sessionId)

\* C26: a sentinel that is there when the process starts is deleted during
\* Starting and is no close request: the start leads to Running with the
\* sentinel gone, the first turn runs and its result frame is written, and the
\* process is Closed only after that and only when the host has created the
\* sentinel again since startup.
C26_StaleSentinelIgnored ==
  /\ [][(pc = "Starting" /\ pc' # pc) => (pc' = "Running" /\ ~sentinel')]_vars
  /\ [](pc = "Closed" => (closeAsked /\ FirstResultWritten))
  /\ ((pc = "Starting" /\ sentinel) ~> FirstResultWritten)

\* the first turn is over and the wait goes on, the host not having asked to close
C26_Witness ==
  /\ world.sentinel
  /\ ~sentinel
  /\ ~closeAsked
  /\ pc = "AwaitingInput"
  /\ FirstResultWritten

(* ------------------------- close before input --------------------------- *)

\* the step that closes the session
Closes == pc # "Closed" /\ pc' = "Closed"

\* C27: close takes priority over pending input.  The test after a turn's result
\* frame and the one at the start of a poll both look at the sentinel before the
\* mailbox: with the sentinel there the step closes, whatever is in the mailbox,
\* and the closing step reads and deletes no file and starts no turn; the files
\* stay in the mailbox of the closed process.
C27_CloseBeforeInput ==
  [][/\ (sentinel /\ TurnEnds) => Closes
     /\ (sentinel /\ PollStep /\ (pc' # pc \/ dir' # dir \/ sentinel' # sentinel)) => Closes
     /\ Closes =>
          /\ sentinel
          /\ ~sentinel'
          /\ dir' = dir
          /\ lastDrain' = lastDrain
          /\ prompt' = prompt
          /\ prompts' = prompts
     /\ pc = "Closed" => (dir' = dir /\ prompts' = prompts)]_vars

\* closed by a poll, after the heartbeat of the first turn, with a well-formed
\* message still in the mailbox
C27_Witness ==
  /\ pc = "Closed"
  /\ ActionableIn(dir) # {}
  /\ Len(Frames(stdout)) = 2
  /\ Len(prompts) = 1

(* ------------------------- delivery of messages ------------------------- *)

\* Delivery under the fair scheduling of LiveSpec, in the sessions where the host
\* sends well-formed messages and the service ends each turn in its first round:
\* with text, with no choice, or with tool calls and the completion reason "stop".
DeliveryInit == Init /\ world \in {FreshWorld, BacklogWorld}

ServiceSettles == (pc = "Calling" /\ pc' = "Tooling") => current'.finish = "stop"

DeliveryNext == LiveNext /\ ServiceSettles

DeliverySpec == DeliveryInit /\ [][DeliveryNext]_vars /\ WF_vars(Worker /\ ServiceSettles)

InMailbox(f) == \E i \in 1..Len(dir) : dir[i] = f
TimesDelivered(t) == Cardinality({k \in 1..Len(prompts) : Occurs(t, prompts[k])})

\* C28: delivery is at most once and keeps the order.  The text of a well-formed
\* message file is in the prompt of at most one turn; a poll that finds no
\* sentinel and well-formed messages starts one turn whose prompt is all their
\* texts joined by newlines in file-name order, so the messages that arrived
\* during a turn are delivered together; and a well-formed message in the
\* mailbox is eventually in a turn's prompt, unless the session closes.
C28_DeliveryAtMostOnceInOrder ==
  /\ [](\A f \in {f2, f10} : TimesDelivered(f.body.text) <= 1)
  /\ [][(PollStep /\ ~sentinel /\ ActionableIn(dir) # {}) =>
          /\ pc' = "Running"
          /\ prompt' = JoinNL(TextsInNameOrder(dir))
          /\ JsonFilesOf(dir') = {}]_vars
  /\ [][prompts' # prompts => prompts' = Append(prompts, prompt)]_vars
  /\ \A f \in {f2, f10} :
       InMailbox(f) ~> (TimesDelivered(f.body.text) = 1 \/ pc = "Closed")

\* two messages dropped during the first turn are the prompt of the second
C28_Witness ==
  /\ world = FreshWorld
  /\ prompts = << <<"hi">>, <<"ten", NL, "two">> >>
  /\ dir = <<>>
  /\ pc = "Calling"

(* ------------------------ the paths the tools take ---------------------- *)

\* the segments a path argument is made of; "group2" is <<"group", "2">>
Segments ==
  { <<"..">>, <<".">>, <<"workspace">>, <<"group">>, <<"group", "2">>, <<"memory">>,
    <<"notes.md">> }

RECURSIVE PathsUpTo(_)
PathsUpTo(n) ==
  IF n = 0 THEN {<<>>}
  ELSE PathsUpTo(n - 1) \cup {Append(q, seg) : q \in PathsUpTo(n - 1), seg \in Segments}

\* the argument objects the model may send to a file tool
PathArgs ==
  {EmptyArgs} \cup {Args(TRUE, PathArg(abs, segs), <<>>) :
                      abs \in BOOLEAN, segs \in PathsUpTo(MaxPathLen)}

FileTools == {"read_file", "write_file", "list_files"}

\* one file tool called with one argument object
PathInit ==
  /\ world = FreshWorld
  /\ dir = <<>>
  /\ sentinel = FALSE
  /\ histFile = <<>>
  /\ hostFiles = 0
  /\ pc = "Resolving"
  /\ sessionId = SessionIdAt(world.now)
  /\ prompt = world.stdin.prompt
  /\ messages = <<>>
  /\ rounds = 1
  /\ current \in {Response(TRUE, <<>>, <<ToolCall("call_1", name, TRUE, args)>>, "tool_calls") :
                    name \in FileTools, args \in PathArgs}
  /\ toolIdx = 1
  /\ stdout = <<>>
  /\ closeAsked = FALSE
  /\ hist0 = <<>>
  /\ appended = <<>>
  /\ turnCalls = 1
  /\ onlyTools = TRUE
  /\ logWritten = FALSE
  /\ ending = ""
  /\ returned = <<>>
  /\ lastDrain = NoDrain
  /\ prompts = <<>>
  /\ touched = <<>>

\* const result = await executeTool(toolCall.function.name, fnArgs, chatJid)
PathToolReturns ==
  /\ pc = "Resolving"
  /\ \E exists \in BOOLEAN :
       LET call == current.calls[toolIdx]
           done == executeTool(call.name, parseArguments(call), exists)
       IN /\ touched' = done.touched
          /\ messages' = <<ChatMessage("tool", done.result, <<>>, call.id)>>
  /\ pc' = "Resolved"
  /\ UNCHANGED <<sessionId, prompt, rounds, current, toolIdx, stdout>>
  /\ UNCHANGED <<fsVars, hostVars, turnVars, returned, lastDrain, prompts>>

PathSpec == PathInit /\ [][PathToolReturns]_vars

\* the path is the workspace root or a path below it, segment by segment
InsideWorkspace(q) == IsPrefix(<< <<"workspace">>, <<"group">> >>, q)

TraversalError(name) ==
  <<"Tool error (", name, "): ", "Path traversal blocked: path must be within workspace">>

\* C29: a file tool either gives the file system a path inside /workspace/group
\* or fails with the path-traversal error as its result; no path argument makes it
\* touch a path outside, such as a sibling directory whose name begins with
\* "group".
C29_WorkspaceConfinement ==
  (pc = "Resolved" /\ current.calls[1].args.hasPath) =>
    \/ touched # <<>> /\ InsideWorkspace(touched)
    \/ touched = <<>> /\ messages[1].content = TraversalError(current.calls[1].name)

(* --------------------------- an empty answer ---------------------------- *)

\* C30, as stated: a turn whose final text is empty writes two frames, a result
\* frame with a null result and the heartbeat that follows it, equal to each
\* other, and appends the empty assistant message to the log.
C30_EmptyAnswerTwoFrames ==
  [][(TurnEnds /\ returned'[Len(returned')] = <<>>) =>
       LET new == NewFrames(stdout, stdout')
       IN /\ Len(new) = 2
          /\ new[1] = new[2]
          /\ new[1].result = [isNull |-> TRUE, str |-> <<>>]
          /\ appended' = Append(appended, [role |-> "assistant", content |-> <<>>])]_vars

\* C30: a turn whose final text is empty writes a result frame with a null
\* result, the same frame as the heartbeat that follows it: the frames of the
\* turn are all that one result-less frame, two of them unless the sentinel
\* closes the session after the first, none carries a result text, and the empty
\* assistant message is appended to the log all the same.
C30_EmptyAnswerLooksLikeHeartbeat ==
  [][(TurnEnds /\ returned'[Len(returned')] = <<>>) =>
       LET new == NewFrames(stdout, stdout')
           quiet == [status |-> "success", result |-> [isNull |-> TRUE, str |-> <<>>],
                     newSessionId |-> sessionId, error |-> Absent]
       IN /\ ending' \in {"final", "stop"}
          /\ Len(new) = IF sentinel THEN 1 ELSE 2
          /\ \A k \in 1..Len(new) : new[k] = quiet
          /\ appended' = Append(appended, [role |-> "assistant", content |-> <<>>])
          /\ Len(histFile') >= 1
          /\ histFile'[Len(histFile')] = [kind |-> "json", role |-> "assistant", content |-> <<>>]]_vars

\* the first turn answered with nothing: two equal frames, and the log has the
\* user message and an empty assistant message
C30_Witness ==
  /\ pc = "AwaitingInput"
  /\ returned = << <<>> >>
  /\ Len(Frames(stdout)) = 2
  /\ Frames(stdout)[1] = Frames(stdout)[2]
  /\ Frames(stdout)[1].result.isNull
  /\ Len(appended) = 2
  /\ appended[2] = HistoryMessage("assistant", <<>>)

====
